---- MODULE Spec2Model ----
(***************************************************************************)
(* Model of util/include/util/odb_compatibility.h.                         *)
(*                                                                         *)
(* Two machines share this module.                                         *)
(*   SpecPP  the preprocessor walking through the header, directive by     *)
(*           directive, for every toolchain / standard / flag combination  *)
(*           the build can hand in;                                        *)
(*   Spec    the objects of the class template std::auto_ptr<T> and of     *)
(*           std::auto_ptr_ref<T> that the header spells out (lines        *)
(*           35-121), one action per member function.                      *)
(***************************************************************************)
EXTENDS Integers, FiniteSets, Sequences, TLC

VARIABLES
    \* ---- preprocessor state (SpecPP) ----
    pc,          \* next directive of the header to be processed
    defs,        \* macros that are #defined at this point
    build,       \* macros the build supplied before the header was included
    cplusplus,   \* value of __cplusplus
    native,      \* <memory> made the toolchain's own std::auto_ptr visible
    shim,        \* number of times the header's std::auto_ptr was compiled in
    warn,        \* depth of the MSVC #pragma warning stack
    \* ---- object state (Spec) ----
    alive,       \* alive[h]: handle h is a constructed auto_ptr object
    elem,        \* elem[h]: element type T the handle variable h is declared with
    ptr_,        \* ptr_[h]: the member auto_ptr<T>::ptr_ (0 is nullptr)
    ref,         \* the auto_ptr_ref temporary in flight, if any
    nalloc,      \* instances 1..nalloc have been created with new
    freed,       \* freed[i]: how many times delete was applied to instance i
    held,        \* raw pointers the caller is responsible for
    last,        \* <<op, h, x, old>>: the member function that ran last, the
                 \* handle it ran on, its argument (a handle or a pointer)
                 \* and the value ptr_[h] had when it was called
    ret          \* what that member function returned

varsPP == <<pc, defs, build, cplusplus, native, shim, warn>>
varsRT == <<alive, elem, ptr_, ref, nalloc, freed, held, last, ret>>
vars == <<pc, defs, build, cplusplus, native, shim, warn,
          alive, elem, ptr_, ref, nalloc, freed, held, last, ret>>

(***************************************************************************)
(* Bounds                                                                  *)
(***************************************************************************)
NumHandles == 3
MaxInst == 2
MaxFreed == 2

(***************************************************************************)
(* Part 1: the conditional-compilation skeleton of the header              *)
(***************************************************************************)
GNUC == "__GNUC__"
MSC_VER == "_MSC_VER"
GLIBCXX_USE_DEPRECATED == "_GLIBCXX_USE_DEPRECATED"
LIBCPP_ENABLE_CXX17_REMOVED_AUTO_PTR == "_LIBCPP_ENABLE_CXX17_REMOVED_AUTO_PTR"
SILENCE_CXX17_AUTO_PTR_DEPRECATION_WARNING == "_SILENCE_CXX17_AUTO_PTR_DEPRECATION_WARNING"
ODB_COMPATIBILITY_H == "ODB_COMPATIBILITY_H"

\* The revision of the language standard that removed std::auto_ptr.
Cxx17 == 201703

\* What the build can supply: compiler identification and the two flags.
BuildMacros == {GNUC, MSC_VER, GLIBCXX_USE_DEPRECATED,
                LIBCPP_ENABLE_CXX17_REMOVED_AUTO_PTR}
CompatFlags == {GLIBCXX_USE_DEPRECATED, LIBCPP_ENABLE_CXX17_REMOVED_AUTO_PTR}
Standards == {199711, 201103, 201402, 201703, 202002}

\* The toolchain's side of #include <memory>: the legacy type is absent
\* exactly for the GNU family from C++17 on when no flag asking for it is
\* defined at the point of inclusion.
NativeAutoPtr(d, std) ==
    ~(GNUC \in d /\ std >= Cxx17 /\ d \cap CompatFlags = {})

\* #if defined(__GNUC__) && (__cplusplus >= 201703L)
\*     && !defined(_GLIBCXX_USE_DEPRECATED)
Activation(d, std) ==
    GNUC \in d /\ std >= Cxx17 /\ GLIBCXX_USE_DEPRECATED \notin d

InitPP ==
    /\ pc = "ifndef_guard"
    /\ build \in SUBSET BuildMacros
    /\ defs = build
    /\ cplusplus \in Standards
    /\ native = FALSE
    /\ shim = 0
    /\ warn = 0

\* #ifndef ODB_COMPATIBILITY_H / #define ODB_COMPATIBILITY_H
IncludeGuard ==
    /\ pc = "ifndef_guard"
    /\ UNCHANGED varsRT
    /\ IF ODB_COMPATIBILITY_H \in defs
         THEN pc' = "eof" /\ defs' = defs
         ELSE pc' = "include_memory" /\ defs' = defs \cup {ODB_COMPATIBILITY_H}
    /\ UNCHANGED <<build, cplusplus, native, shim, warn>>

\* #include <memory>
IncludeMemory ==
    /\ pc = "include_memory"
    /\ UNCHANGED varsRT
    /\ native' = NativeAutoPtr(defs, cplusplus)
    /\ pc' = "ifndef_glibcxx"
    /\ UNCHANGED <<defs, build, cplusplus, shim, warn>>

\* #ifndef _GLIBCXX_USE_DEPRECATED / #define _GLIBCXX_USE_DEPRECATED 1
DefineGlibcxxFlag ==
    /\ pc = "ifndef_glibcxx"
    /\ UNCHANGED varsRT
    /\ defs' = defs \cup {GLIBCXX_USE_DEPRECATED}
    /\ pc' = "ifndef_libcpp"
    /\ UNCHANGED <<build, cplusplus, native, shim, warn>>

\* #ifndef _LIBCPP_ENABLE_CXX17_REMOVED_AUTO_PTR / #define ... 1
DefineLibcppFlag ==
    /\ pc = "ifndef_libcpp"
    /\ UNCHANGED varsRT
    /\ defs' = defs \cup {LIBCPP_ENABLE_CXX17_REMOVED_AUTO_PTR}
    /\ pc' = "ifdef_msc_push"
    /\ UNCHANGED <<build, cplusplus, native, shim, warn>>

\* #ifdef _MSC_VER / #define _SILENCE_... / #pragma warning(push)
MsvcPush ==
    /\ pc = "ifdef_msc_push"
    /\ UNCHANGED varsRT
    /\ IF MSC_VER \in defs
         THEN /\ defs' = defs \cup {SILENCE_CXX17_AUTO_PTR_DEPRECATION_WARNING}
              /\ warn' = warn + 1
         ELSE UNCHANGED <<defs, warn>>
    /\ pc' = "if_activation"
    /\ UNCHANGED <<build, cplusplus, native, shim>>

\* #if defined(__GNUC__) && ... / namespace std { ... } / #endif
ActivationIf ==
    /\ pc = "if_activation"
    /\ UNCHANGED varsRT
    /\ shim' = IF Activation(defs, cplusplus) THEN shim + 1 ELSE shim
    /\ pc' = "ifdef_msc_pop"
    /\ UNCHANGED <<defs, build, cplusplus, native, warn>>

\* #ifdef _MSC_VER / #pragma warning(pop)
MsvcPop ==
    /\ pc = "ifdef_msc_pop"
    /\ UNCHANGED varsRT
    /\ warn' = IF MSC_VER \in defs THEN warn - 1 ELSE warn
    /\ pc' = "eof"
    /\ UNCHANGED <<defs, build, cplusplus, native, shim>>

\* A later #include of the same header by the same translation unit.
ReInclude ==
    /\ pc = "eof"
    /\ UNCHANGED varsRT
    /\ pc' = "ifndef_guard"
    /\ UNCHANGED <<defs, build, cplusplus, native, shim, warn>>

(***************************************************************************)
(* Part 2: std::auto_ptr<T> and std::auto_ptr_ref<T> as the header defines *)
(* them                                                                    *)
(***************************************************************************)
Handles == 1..NumHandles
Inst == 1..MaxInst
nullptr == 0
Types == {"Base", "Derived"}

\* U* converts implicitly to T*: same type, or derived to base.
Convertible(U, T) == U = T \/ (U = "Derived" /\ T = "Base")

\* struct auto_ptr_ref { T* ptr_; explicit auto_ptr_ref(T* p) : ptr_(p) {} };
auto_ptr_ref(p, T) == [live |-> TRUE, ptr_ |-> p, elem |-> T]
NoRef == [live |-> FALSE, ptr_ |-> nullptr, elem |-> "Base"]

\* The delete expression: nothing for nullptr, one deallocation otherwise.
delete(f, p) == IF p = nullptr THEN f ELSE [f EXCEPT ![p] = @ + 1]
CanDelete(p) == IF p = nullptr THEN TRUE ELSE freed[p] < MaxFreed

\* T* get() const { return ptr_; }
get(h) == ptr_[h]

\* release() that forgets ptr_ = nullptr
released_Keeps(pf, h) == pf

\* The effect of release() on the handle it is called on: ptr_ = nullptr.
released(pf, h) == [pf EXCEPT ![h] = nullptr]

\* Raw pointers a caller can pass in: nullptr, one it is responsible for, or
\* the result of a new-expression.
RawArgs == {nullptr} \cup held
             \cup (IF nalloc < MaxInst THEN {nalloc + 1} ELSE {})
\* Passing p to a handle hands the responsibility for it over.
Pass(p) ==
    /\ nalloc' = IF p = nalloc + 1 THEN nalloc + 1 ELSE nalloc
    /\ held' = held \ {p}

InitRT ==
    /\ alive = [h \in Handles |-> FALSE]
    /\ elem = [h \in Handles |-> IF h = 1 THEN "Derived" ELSE "Base"]
    /\ ptr_ = [h \in Handles |-> nullptr]
    /\ ref = NoRef
    /\ nalloc = 0
    /\ freed = [i \in Inst |-> 0]
    /\ held = {}
    /\ last = <<"none", 0, 0, nullptr>>
    /\ ret = nullptr

\* explicit auto_ptr(T* ptr = nullptr) : ptr_(ptr) {}
Ctor(h, T, p) ==
    /\ ~alive[h] /\ T = elem[h]
    /\ p \in RawArgs
    /\ alive' = [alive EXCEPT ![h] = TRUE]
    /\ elem' = elem
    /\ ptr_' = [ptr_ EXCEPT ![h] = p]
    /\ Pass(p)
    /\ last' = <<"ctor", h, p, nullptr>>
    /\ UNCHANGED varsPP
    /\ ret' = nullptr
    /\ UNCHANGED <<ref, freed>>

\* release() that returns ptr_ after clearing it
Release_ReturnsNull(h) ==
    /\ alive[h]
    /\ ret' = nullptr
    /\ ptr_' = released(ptr_, h)
    /\ held' = held
    /\ last' = <<"release", h, 0, ptr_[h]>>
    /\ UNCHANGED varsPP
    /\ UNCHANGED <<alive, elem, ref, nalloc, freed>>

\* T* release() { T* tmp = ptr_; ptr_ = nullptr; return tmp; }
Release(h) ==
    /\ alive[h]
    /\ ret' = ptr_[h]
    /\ ptr_' = released(ptr_, h)
    /\ held' = held \cup ({ptr_[h]} \ {nullptr})
    /\ last' = <<"release", h, 0, ptr_[h]>>
    /\ UNCHANGED varsPP
    /\ UNCHANGED <<alive, elem, ref, nalloc, freed>>

\* T* get() const, called by the owner of the handle
Get(h) ==
    /\ alive[h]
    /\ ret' = get(h)
    /\ last' = <<"get", h, 0, ptr_[h]>>
    /\ UNCHANGED varsPP
    /\ UNCHANGED <<alive, elem, ptr_, ref, nalloc, freed, held>>

\* ~auto_ptr() { delete ptr_; }
Dtor(h) ==
    /\ alive[h]
    /\ CanDelete(ptr_[h])
    /\ freed' = delete(freed, ptr_[h])
    /\ alive' = [alive EXCEPT ![h] = FALSE]
    /\ elem' = elem
    /\ ptr_' = [ptr_ EXCEPT ![h] = nullptr]
    /\ last' = <<"dtor", h, 0, ptr_[h]>>
    /\ UNCHANGED varsPP
    /\ ret' = nullptr
    /\ UNCHANGED <<ref, nalloc, held>>

\* copy constructor that reads other.get() instead of other.release()
CopyCtor_Shares(b, T, a) ==
    /\ alive[a] /\ ~alive[b] /\ T = elem[b]
    /\ Convertible(elem[a], T)
    /\ alive' = [alive EXCEPT ![b] = TRUE]
    /\ elem' = elem
    /\ ptr_' = [ptr_ EXCEPT ![b] = ptr_[a]]
    /\ last' = <<"copy", b, a, nullptr>>
    /\ UNCHANGED varsPP
    /\ ret' = nullptr
    /\ UNCHANGED <<ref, nalloc, freed, held>>

\* auto_ptr(auto_ptr& other) : ptr_(other.release()) {}
\* template<typename U> auto_ptr(auto_ptr<U>& other) : ptr_(other.release()) {}
CopyCtor(b, T, a) ==
    /\ alive[a] /\ ~alive[b] /\ T = elem[b]
    /\ Convertible(elem[a], T)
    /\ alive' = [alive EXCEPT ![b] = TRUE]
    /\ elem' = elem
    /\ ptr_' = [released(ptr_, a) EXCEPT ![b] = ptr_[a]]
    /\ last' = <<"copy", b, a, nullptr>>
    /\ UNCHANGED varsPP
    /\ ret' = nullptr
    /\ UNCHANGED <<ref, nalloc, freed, held>>

\* auto_ptr(auto_ptr_ref<T> ref) : ptr_(ref.ptr_) {}
CtorRef(b) ==
    /\ ref.live /\ ~alive[b] /\ ref.elem = elem[b]
    /\ alive' = [alive EXCEPT ![b] = TRUE]
    /\ elem' = elem
    /\ ptr_' = [ptr_ EXCEPT ![b] = ref.ptr_]
    /\ ref' = NoRef
    /\ last' = <<"ctor_ref", b, ref.ptr_, nullptr>>
    /\ UNCHANGED varsPP
    /\ ret' = nullptr
    /\ UNCHANGED <<nalloc, freed, held>>

\* operator= without the this != &other test
Assign_NoSelfCheck(b, a) ==
    /\ alive[a] /\ alive[b]
    /\ Convertible(elem[a], elem[b])
    /\ CanDelete(ptr_[b])
    /\ freed' = delete(freed, ptr_[b])
    /\ ptr_' = [released(ptr_, a) EXCEPT ![b] = ptr_[a]]
    /\ last' = <<"assign", b, a, ptr_[b]>>
    /\ UNCHANGED varsPP
    /\ ret' = nullptr
    /\ UNCHANGED <<alive, elem, ref, nalloc, held>>

\* operator= that overwrites ptr_ without deleting it
Assign_NoDelete(b, a) ==
    /\ alive[a] /\ alive[b]
    /\ Convertible(elem[a], elem[b])
    /\ IF b # a
         THEN /\ freed' = freed
              /\ ptr_' = [released(ptr_, a) EXCEPT ![b] = ptr_[a]]
         ELSE UNCHANGED <<freed, ptr_>>
    /\ last' = <<"assign", b, a, ptr_[b]>>
    /\ UNCHANGED varsPP
    /\ ret' = nullptr
    /\ UNCHANGED <<alive, elem, ref, nalloc, held>>

\* auto_ptr& operator=(auto_ptr& other)
\* template<typename U> auto_ptr& operator=(auto_ptr<U>& other)
\*   if (this != &other) { delete ptr_; ptr_ = other.release(); }
Assign(b, a) ==
    /\ alive[a] /\ alive[b]
    /\ Convertible(elem[a], elem[b])
    /\ IF b # a
         THEN /\ CanDelete(ptr_[b])
              /\ freed' = delete(freed, ptr_[b])
              /\ ptr_' = [released(ptr_, a) EXCEPT ![b] = ptr_[a]]
         ELSE UNCHANGED <<freed, ptr_>>
    /\ last' = <<"assign", b, a, ptr_[b]>>
    /\ UNCHANGED varsPP
    /\ ret' = nullptr
    /\ UNCHANGED <<alive, elem, ref, nalloc, held>>

\* operator=(auto_ptr_ref) without the ref.ptr_ != ptr_ test
AssignFromRef_NoCheck(b, r) ==
    /\ CanDelete(ptr_[b])
    /\ freed' = delete(freed, ptr_[b])
    /\ ptr_' = [ptr_ EXCEPT ![b] = r.ptr_]

\* auto_ptr& operator=(auto_ptr_ref<T> ref)
\*   if (ref.ptr_ != ptr_) { delete ptr_; ptr_ = ref.ptr_; }
AssignFromRef(b, r) ==
    IF r.ptr_ # ptr_[b]
      THEN /\ CanDelete(ptr_[b])
           /\ freed' = delete(freed, ptr_[b])
           /\ ptr_' = [ptr_ EXCEPT ![b] = r.ptr_]
      ELSE UNCHANGED <<freed, ptr_>>

\* b = r, where r is the auto_ptr_ref some handle was converted to
AssignRef(b) ==
    /\ ref.live /\ alive[b]
    /\ ref.elem = elem[b]
    /\ AssignFromRef(b, ref)
    /\ ref' = NoRef
    /\ last' = <<"assign_ref", b, ref.ptr_, ptr_[b]>>
    /\ UNCHANGED varsPP
    /\ ret' = nullptr
    /\ UNCHANGED <<alive, elem, nalloc, held>>

\* b = auto_ptr_ref<T>(b.get()): a proxy carrying the pointer b already holds
AssignOwnRef(b) ==
    /\ alive[b]
    /\ AssignFromRef(b, auto_ptr_ref(get(b), elem[b]))
    /\ last' = <<"assign_own_ref", b, get(b), ptr_[b]>>
    /\ UNCHANGED varsPP
    /\ ret' = nullptr
    /\ UNCHANGED <<alive, elem, ref, nalloc, held>>

\* conversion that packs get() instead of release()
ToRef_NoRelease(a, U) ==
    /\ alive[a] /\ ~ref.live
    /\ Convertible(elem[a], U)
    /\ ref' = auto_ptr_ref(ptr_[a], U)
    /\ ptr_' = ptr_
    /\ last' = <<"to_ref", a, 0, ptr_[a]>>
    /\ UNCHANGED varsPP
    /\ ret' = nullptr
    /\ UNCHANGED <<alive, elem, nalloc, freed, held>>

\* template<typename U> operator auto_ptr_ref<U>()
\*   { return auto_ptr_ref<U>(this->release()); }
ToRef(a, U) ==
    /\ alive[a] /\ ~ref.live
    /\ Convertible(elem[a], U)
    /\ ref' = auto_ptr_ref(ptr_[a], U)
    /\ ptr_' = released(ptr_, a)
    /\ last' = <<"to_ref", a, 0, ptr_[a]>>
    /\ UNCHANGED varsPP
    /\ ret' = nullptr
    /\ UNCHANGED <<alive, elem, nalloc, freed, held>>

\* template<typename U> operator auto_ptr<U>()
\*   { return auto_ptr<U>(this->release()); }
ToHandle(a, U, b) ==
    /\ alive[a] /\ ~alive[b] /\ U = elem[b]
    /\ Convertible(elem[a], U)
    /\ alive' = [alive EXCEPT ![b] = TRUE]
    /\ elem' = elem
    /\ ptr_' = [released(ptr_, a) EXCEPT ![b] = ptr_[a]]
    /\ last' = <<"to_handle", b, a, nullptr>>
    /\ UNCHANGED varsPP
    /\ ret' = nullptr
    /\ UNCHANGED <<ref, nalloc, freed, held>>

\* The auto_ptr_ref temporary ends its life unused; the struct declares no
\* destructor, so nothing is deallocated.
DropRef ==
    /\ ref.live
    /\ ref' = NoRef
    /\ last' = <<"drop_ref", 0, ref.ptr_, nullptr>>
    /\ UNCHANGED varsPP
    /\ ret' = nullptr
    /\ UNCHANGED <<alive, elem, ptr_, nalloc, freed, held>>

\* reset() without the ptr != ptr_ test
Reset_NoCheck(h, p) ==
    /\ alive[h]
    /\ p \in RawArgs \cup {get(h)}
    /\ CanDelete(ptr_[h])
    /\ freed' = delete(freed, ptr_[h])
    /\ ptr_' = [ptr_ EXCEPT ![h] = p]
    /\ Pass(p)
    /\ last' = <<"reset", h, p, ptr_[h]>>
    /\ UNCHANGED varsPP
    /\ ret' = nullptr
    /\ UNCHANGED <<alive, elem, ref>>

\* void reset(T* ptr = nullptr)
\*   { if (ptr != ptr_) { delete ptr_; ptr_ = ptr; } }
\* p is a raw pointer of the caller's, or the handle's own get().
Reset(h, p) ==
    /\ alive[h]
    /\ p \in RawArgs \cup {get(h)}
    /\ IF p # ptr_[h]
         THEN /\ CanDelete(ptr_[h])
              /\ freed' = delete(freed, ptr_[h])
              /\ ptr_' = [ptr_ EXCEPT ![h] = p]
              /\ Pass(p)
         ELSE UNCHANGED <<freed, ptr_, nalloc, held>>
    /\ last' = <<"reset", h, p, ptr_[h]>>
    /\ UNCHANGED varsPP
    /\ ret' = nullptr
    /\ UNCHANGED <<alive, elem, ref>>

(***************************************************************************)
(* Specifications                                                          *)
(***************************************************************************)
\* The header under the preprocessor; no object exists yet.
InitHeader == InitPP /\ InitRT
NextPP ==
    \/ IncludeGuard
    \/ IncludeMemory
    \/ DefineGlibcxxFlag
    \/ DefineLibcppFlag
    \/ MsvcPush
    \/ ActivationIf
    \/ MsvcPop
    \/ ReInclude
SpecPP == InitHeader /\ [][NextPP]_vars

\* The objects of the class template; the preprocessor is not running.
InitObjects ==
    /\ pc = "off"
    /\ build = {}
    /\ defs = {}
    /\ cplusplus = Cxx17
    /\ native = FALSE
    /\ shim = 0
    /\ warn = 0
    /\ InitRT
Next ==
    \/ \E h \in Handles, T \in Types, p \in 0..MaxInst : Ctor(h, T, p)
    \/ \E b \in Handles, T \in Types, a \in Handles : CopyCtor(b, T, a)
    \/ \E b \in Handles : CtorRef(b)
    \/ \E b \in Handles, a \in Handles : Assign(b, a)
    \/ \E b \in Handles : AssignRef(b)
    \/ \E b \in Handles : AssignOwnRef(b)
    \/ \E a \in Handles, U \in Types : ToRef(a, U)
    \/ \E a \in Handles, U \in Types, b \in Handles : ToHandle(a, U, b)
    \/ DropRef
    \/ \E h \in Handles : Dtor(h)
    \/ \E h \in Handles : Get(h)
    \/ \E h \in Handles : Release(h)
    \/ \E h \in Handles, p \in 0..MaxInst : Reset(h, p)
Spec == InitObjects /\ [][Next]_vars

(***************************************************************************)
(* Properties                                                              *)
(***************************************************************************)
\* The live handles whose ptr_ is instance i.
owners(i) == {h \in Handles : alive[h] /\ ptr_[h] = i}
\* Between two states, delete ran on instance q exactly once and on nothing
\* else (on nothing at all when q is nullptr).
FreedOnly(q) ==
    \A j \in Inst : freed'[j] = IF j = q THEN freed[j] + 1 ELSE freed[j]
\* The flags the build itself asked for.
BuildFlags == build \cap CompatFlags

\* C1: when the header has been processed, the shim's auto_ptr was compiled
\* in if and only if the compiler is GNU-family, __cplusplus >= 201703 and
\* the build set neither compatibility flag.
C1_ShimIffLegacyTypeRemoved ==
    pc = "eof" =>
        ((shim > 0) <=> (GNUC \in build /\ cplusplus >= Cxx17 /\ BuildFlags = {}))

\* C2: when the header has been processed, exactly one definition of
\* std::auto_ptr is visible: the toolchain's or the shim's, never none and
\* never both.
C2_ExactlyOneDefinition ==
    pc = "eof" => (IF native THEN 1 ELSE 0) + shim = 1

\* C3: no instance is the ptr_ of more than one live handle.
C3_SingleOwner ==
    \A i \in Inst : Cardinality(owners(i)) <= 1
\* ownership has moved from one handle to another by assignment
C3_Witness ==
    /\ last[1] = "assign" /\ last[2] # last[3]
    /\ ptr_[last[2]] # nullptr /\ ptr_[last[3]] = nullptr
    /\ owners(ptr_[last[2]]) = {last[2]}
    /\ \E h \in Handles \ {last[2], last[3]} : alive[h] /\ ptr_[h] # nullptr

\* C4: no instance is deallocated more than once, and a destructor
\* deallocates the instance its handle owns exactly once, nothing for a null
\* handle.
C4_ExactlyOnceDeallocation ==
    /\ [](\A i \in Inst : freed[i] <= 1)
    /\ [][\A h \in Handles :
            (last'[1] = "dtor" /\ last'[2] = h) =>
                /\ FreedOnly(ptr_[h])
                /\ ptr_[h] # nullptr => freed'[ptr_[h]] = 1]_vars
\* every instance has been deallocated exactly once, the last of them by the
\* destructor of the handle that owned it
C4_Witness ==
    /\ last[1] = "dtor" /\ last[4] # nullptr
    /\ \A i \in Inst : freed[i] = 1

\* C5: b = a with b # a and b owning an instance different from a's
\* deallocates b's former instance exactly once and nothing else, makes b own
\* what a owned and leaves a null.
C5_AssignTransfers ==
    [][\A a, b \in Handles :
         (/\ last'[1] = "assign" /\ last'[2] = b /\ last'[3] = a
          /\ a # b /\ ptr_[b] # nullptr /\ ptr_[b] # ptr_[a]) =>
             /\ FreedOnly(ptr_[b])
             /\ freed'[ptr_[b]] = 1
             /\ ptr_'[b] = ptr_[a]
             /\ ptr_'[a] = nullptr]_vars
C5_Witness ==
    /\ last[1] = "assign" /\ last[2] # last[3]
    /\ last[4] # nullptr /\ freed[last[4]] = 1
    /\ ptr_[last[2]] \notin {nullptr, last[4]}
    /\ ptr_[last[3]] = nullptr

\* C6: b = b changes neither b nor any deallocation count, and destroying b
\* right afterwards deallocates its instance exactly once; assigning to b a
\* proxy that carries b's own pointer changes nothing either.
C6_SelfAssignNoOp ==
    /\ [][\A b \in Handles :
            (last'[1] = "assign" /\ last'[2] = b /\ last'[3] = b) =>
                /\ ptr_' = ptr_ /\ freed' = freed
                /\ alive' = alive /\ ref' = ref]_vars
    /\ [][\A b \in Handles :
            (/\ last[1] = "assign" /\ last[2] = b /\ last[3] = b
             /\ last'[1] = "dtor" /\ last'[2] = b /\ ptr_[b] # nullptr) =>
                FreedOnly(ptr_[b]) /\ freed'[ptr_[b]] = 1]_vars
    /\ [][\A b \in Handles :
            (last'[1] = "assign_own_ref" /\ last'[2] = b) =>
                /\ ptr_' = ptr_ /\ freed' = freed
                /\ alive' = alive /\ ref' = ref]_vars
\* b has just been assigned to itself and still owns its live instance
C6_Witness ==
    /\ last[1] = "assign" /\ last[2] = last[3]
    /\ last[4] # nullptr /\ ptr_[last[2]] = last[4]
    /\ freed[last[4]] = 0

\* C7: copy-constructing b from a gives b the instance a owned, leaves a
\* null (a.get() is nullptr) and deallocates nothing; a handle constructed
\* from a raw pointer returns that pointer from get().
C7_CopyCtorTransfers ==
    /\ [][\A a, b \in Handles :
            (last'[1] = "copy" /\ last'[2] = b /\ last'[3] = a) =>
                /\ alive'[b] /\ Convertible(elem[a], elem'[b])
                /\ get(b)' = ptr_[a]
                /\ get(a)' = nullptr
                /\ freed' = freed]_vars
    /\ [](last[1] = "ctor" => alive[last[2]] /\ get(last[2]) = last[3])
    /\ [](last[1] = "get" => ret = last[4] /\ ptr_[last[2]] = last[4])
\* a Base handle took a Derived handle's instance by copy construction
C7_Witness ==
    /\ last[1] = "copy"
    /\ ptr_[last[2]] # nullptr /\ ptr_[last[3]] = nullptr
    /\ elem[last[2]] = "Base" /\ elem[last[3]] = "Derived"

\* C8: release() returns the pointer the handle owned, leaves the handle
\* null and deallocates nothing; destroying the handle right afterwards
\* deallocates nothing, and no handle ever deallocates a pointer the caller
\* still holds.
C8_ReleaseGivesUp ==
    /\ [][\A h \in Handles :
            (last'[1] = "release" /\ last'[2] = h) =>
                /\ ret' = ptr_[h]
                /\ ptr_'[h] = nullptr
                /\ freed' = freed]_vars
    /\ [][(last[1] = "release" /\ last'[1] = "dtor" /\ last'[2] = last[2]) =>
                freed' = freed]_vars
    /\ [](\A i \in held : freed[i] = 0)
\* a handle has just released the instance it owned to the caller
C8_Witness ==
    /\ last[1] = "release" /\ last[4] # nullptr
    /\ ret = last[4] /\ ptr_[last[2]] = nullptr
    /\ last[4] \in held /\ freed[last[4]] = 0

\* C9: reset(p) with p different from ptr_ deallocates the owned instance
\* (if any) exactly once and makes the handle own p; with p equal to ptr_ it
\* changes nothing.
C9_Reset ==
    [][\A h \in Handles :
         (last'[1] = "reset" /\ last'[2] = h) =>
            IF last'[3] # ptr_[h]
              THEN /\ ptr_'[h] = last'[3]
                   /\ FreedOnly(ptr_[h])
                   /\ ptr_[h] # nullptr => freed'[ptr_[h]] = 1
              ELSE /\ ptr_' = ptr_ /\ freed' = freed
                   /\ held' = held /\ nalloc' = nalloc]_vars
\* reset() with no argument emptied a handle that owned an instance
C9_Witness ==
    /\ last[1] = "reset" /\ last[3] = nullptr
    /\ last[4] # nullptr /\ freed[last[4]] = 1
    /\ ptr_[last[2]] = nullptr

\* C10: converting a to a proxy leaves a null, puts a's instance into the
\* proxy and deallocates nothing; a handle b other than a that is then
\* constructed or assigned from the proxy owns that instance, a is still
\* null and the instance has not been deallocated; a proxy that is dropped
\* deallocates nothing.
C10_ProxyRoundTrip ==
    /\ [][\A a \in Handles :
            (last'[1] = "to_ref" /\ last'[2] = a) =>
                /\ ptr_'[a] = nullptr
                /\ ref'.live /\ ref'.ptr_ = ptr_[a]
                /\ Convertible(elem[a], ref'.elem)
                /\ freed' = freed]_vars
    /\ [][\A a, b \in Handles :
            (/\ last[1] = "to_ref" /\ last[2] = a
             /\ last'[1] \in {"ctor_ref", "assign_ref"} /\ last'[2] = b
             /\ a # b) =>
                /\ alive'[b] /\ elem'[b] = ref.elem
                /\ ptr_'[b] = last[4]
                /\ ptr_'[a] = nullptr
                /\ last[4] # nullptr => freed'[last[4]] = 0]_vars
    /\ [][last'[1] \in {"ctor_ref", "drop_ref"} => freed' = freed]_vars
\* a Base handle owns the instance a Derived handle gave to a proxy
C10_Witness ==
    /\ last[1] \in {"ctor_ref", "assign_ref"}
    /\ last[3] # nullptr /\ ptr_[last[2]] = last[3]
    /\ elem[last[2]] = "Base"
    /\ \E a \in Handles \ {last[2]} :
          alive[a] /\ elem[a] = "Derived" /\ ptr_[a] = nullptr

====
